---- MODULE Spec2Model ----
(***************************************************************************)
(* AnimalFramework: the round composer (game/rounds.py) and the round      *)
(* outcome controller (logic/round_controller.py) as state machines.       *)
(***************************************************************************)
EXTENDS Integers, Sequences, FiniteSets, TLC

\* ------------------------------------------------------------------ bounds
\* Largest total_to_find a controller is constructed with.
MaxFind == 4
\* Largest total_chances a controller is constructed with, and largest counter a
\* phone_frame exposes.
MaxChances == 5
\* Largest integral part of a float a phone_frame exposes.
MaxFloat == 1
\* Most record_correct/record_incorrect calls kept in one history.
MaxEvents == 6

\* Largest grid size k choose_round is asked for.
MaxK == 3
\* Largest min_correct / max_correct choose_round is given.
MaxCorrect == 3
\* Largest max_attempts choose_round is given.
MaxAttempts == 2

\* SETTINGS.GRID.GRID_COUNT, SETTINGS.RULES.MIN_CORRECT and MAX_CORRECT, the
\* arguments main.start_round gives choose_round
GRID_COUNT == 9
MIN_CORRECT == 2
MAX_CORRECT == 5

VARIABLES
    \* choose_round's arguments: the entries of images_folder, k, min_correct,
    \* max_correct, max_attempts
    folder, k, min_correct, max_correct, max_attempts,
    \* where the call stands: "idle" (no call), "start", "loop", "returned", "raised"
    pc,
    \* choose_round's locals all_files and letters_present (rounds.py:40, 45)
    all_files, letters_present,
    \* the loop counter of choose_round and the number of rng calls made so far
    attempts, draws,
    \* the loop's locals letter and target_correct (rounds.py:51-52), as last
    \* drawn; target_correct is 0 until the first draw
    letter, target_correct,
    \* the rest of the RoundState returned, whose letter is the local (rounds.py:60-65)
    selected, correct,
    \* the exception choose_round raised
    raised,
    \* RoundController fields (round_controller.py:22-26)
    total_to_find, total_chances, remaining_to_find, remaining_chances, over,
    \* the last public operation called on the controller and what it returned
    \* ("raised" when it raised)
    op, ret,
    \* what that call was given: for sync_from_phone, how the phone_frame held
    \* num_images_to_find and chances_remaining ("missing", "number" or
    \* "unconvertible"); nothing for the other operations
    args,
    \* the record_* calls made since construction, each with the outcome it
    \* returned; kept until the first sync_from_phone call, which discards it
    \* (the counters no longer follow from the calls)
    hist,
    \* TRUE once sync_from_phone has been called on the controller
    synced,
    \* main(): "none" (no window), "created" (create_phone_frame done),
    \* "mainloop", "crashed" (the first start_round raised), "closed" (Exit)
    window,
    \* phone_frame.round_over and the state option of phone_frame.play_again_btn
    round_over, play_again_btn,
    \* whether phone_frame has the counter attributes yet (hasattr), and the four
    \* counters create_instruction_label stores on it (0 while it has none)
    has_counters, num_images_to_find, initial_num_images_to_find,
    chances_remaining, initial_chances,
    \* the tiles on the grid and the correct_images their click handlers hold
    tiles, correct_images,
    \* the tiles tapped since the round started
    tapped,
    \* the last UI handler run, is_correct of the last tap, and the branch of
    \* _maybe_end_round that ended the last round to end ("none" before any has)
    ui_op, tap_correct, end_branch

ctlVars == <<total_to_find, total_chances, remaining_to_find, remaining_chances,
             over, op, ret, args, hist, synced>>
roundVars == <<folder, k, min_correct, max_correct, max_attempts, pc,
               all_files, letters_present, attempts, draws, letter, target_correct, selected, correct, raised>>
uiVars == <<window, round_over, play_again_btn, has_counters, num_images_to_find,
            initial_num_images_to_find, chances_remaining, initial_chances,
            tiles, correct_images, tapped, ui_op, tap_correct, end_branch>>
vars == <<folder, k, min_correct, max_correct, max_attempts, pc,
          all_files, letters_present, attempts, draws, letter, target_correct, selected, correct, raised,
          total_to_find, total_chances, remaining_to_find, remaining_chances,
          over, op, ret, args, hist, synced,
          window, round_over, play_again_btn, has_counters, num_images_to_find,
          initial_num_images_to_find, chances_remaining, initial_chances,
          tiles, correct_images, tapped, ui_op, tap_correct, end_branch>>

\* ------------------------------------------------------- RoundController
Outcome == {"continue", "win", "lose", "impossible"}

Max(a, b) == IF a >= b THEN a ELSE b

\* A decrement that takes nothing off
DecFloor_keeps(x) == Max(0, x)

\* max(0, x - 1): the floored decrement of both record_* methods
DecFloor(x) == Max(0, x - 1)

\* _check with the chances test ahead of the win test
check_lose_first(rtf, rc, ov) ==
    IF rc <= 0 THEN [ret |-> "lose", over |-> TRUE]
    ELSE IF rtf <= 0 THEN [ret |-> "win", over |-> TRUE]
    ELSE IF rtf > rc THEN [ret |-> "impossible", over |-> TRUE]
    ELSE [ret |-> "continue", over |-> ov]

\* _check that reports impossible without ending the round
check_impossible_open(rtf, rc, ov) ==
    IF rtf <= 0 THEN [ret |-> "win", over |-> TRUE]
    ELSE IF rc <= 0 THEN [ret |-> "lose", over |-> TRUE]
    ELSE IF rtf > rc THEN [ret |-> "impossible", over |-> ov]
    ELSE [ret |-> "continue", over |-> ov]

\* _check without the impossible rule
check_no_impossible(rtf, rc, ov) ==
    IF rtf <= 0 THEN [ret |-> "win", over |-> TRUE]
    ELSE IF rc <= 0 THEN [ret |-> "lose", over |-> TRUE]
    ELSE [ret |-> "continue", over |-> ov]

\* _check whose impossible rule fires one attempt late (>= read as >)
check_impossible_late(rtf, rc, ov) ==
    IF rtf <= 0 THEN [ret |-> "win", over |-> TRUE]
    ELSE IF rc <= 0 THEN [ret |-> "lose", over |-> TRUE]
    ELSE IF rtf > rc + 1 THEN [ret |-> "impossible", over |-> TRUE]
    ELSE [ret |-> "continue", over |-> ov]

\* RoundController._check: the outcome and the value of `over` it leaves
\* (over is only ever set, never cleared)
check(rtf, rc, ov) ==
    IF rtf <= 0 THEN [ret |-> "win", over |-> TRUE]
    ELSE IF rc <= 0 THEN [ret |-> "lose", over |-> TRUE]
    ELSE IF rtf > rc THEN [ret |-> "impossible", over |-> TRUE]
    ELSE [ret |-> "continue", over |-> ov]

\* outcome() that tests the chances before the items left to find
outcome_lose_first(rtf, rc) ==
    IF rc <= 0 THEN "lose"
    ELSE IF rtf <= 0 THEN "win"
    ELSE IF rtf > rc THEN "impossible"
    ELSE "continue"

\* RoundController.outcome: the query, computed from the counters alone
outcome(rtf, rc) ==
    IF rtf <= 0 THEN "win"
    ELSE IF rc <= 0 THEN "lose"
    ELSE IF rtf > rc THEN "impossible"
    ELSE "continue"

\* __init__ that takes remaining_chances from total_to_find
RoundController_init_copy_slip(ttf, tc) ==
    /\ total_to_find = ttf
    /\ total_chances = tc
    /\ remaining_to_find = ttf
    /\ remaining_chances = ttf
    /\ over = FALSE
    /\ op = "init"
    /\ args = <<>>
    /\ ret = "none"
    /\ hist = <<>>
    /\ synced = FALSE

\* RoundController.__init__
RoundController_init(ttf, tc) ==
    /\ total_to_find = ttf
    /\ total_chances = tc
    /\ remaining_to_find = ttf
    /\ remaining_chances = tc
    /\ over = FALSE
    /\ op = "init"
    /\ args = <<>>
    /\ ret = "none"
    /\ hist = <<>>
    /\ synced = FALSE

\* record_correct that spends a chance as well (what a tap does in the UI)
record_correct_spends_chance ==
    /\ synced \/ Len(hist) < MaxEvents
    /\ op' = "record_correct"
    /\ args' = <<>>
    /\ IF over
       THEN /\ ret' = "continue"
            /\ UNCHANGED <<remaining_to_find, remaining_chances, over>>
       ELSE /\ remaining_to_find' = DecFloor(remaining_to_find)
            /\ remaining_chances' = DecFloor(remaining_chances)
            /\ LET r == check(DecFloor(remaining_to_find),
                              DecFloor(remaining_chances), over)
               IN  /\ ret' = r.ret
                   /\ over' = r.over
    /\ hist' = IF synced THEN hist ELSE Append(hist, [ev |-> "correct", out |-> ret'])
    /\ UNCHANGED <<total_to_find, total_chances, synced>>
    /\ UNCHANGED <<roundVars, uiVars>>

\* RoundController.record_correct: what the call does to the controller
record_correct_call ==
    /\ synced \/ Len(hist) < MaxEvents
    /\ op' = "record_correct"
    /\ args' = <<>>
    /\ IF over
       THEN /\ ret' = "continue"
            /\ UNCHANGED <<remaining_to_find, over>>
       ELSE /\ remaining_to_find' = DecFloor(remaining_to_find)
            /\ LET r == check(DecFloor(remaining_to_find), remaining_chances, over)
               IN  /\ ret' = r.ret
                   /\ over' = r.over
    /\ hist' = IF synced THEN hist ELSE Append(hist, [ev |-> "correct", out |-> ret'])
    /\ UNCHANGED <<total_to_find, total_chances, remaining_chances, synced>>

record_correct ==
    /\ record_correct_call
    /\ UNCHANGED <<roundVars, uiVars>>

\* record_incorrect without the `if self.over` gate
record_incorrect_ungated ==
    /\ synced \/ Len(hist) < MaxEvents
    /\ op' = "record_incorrect"
    /\ args' = <<>>
    /\ remaining_chances' = DecFloor(remaining_chances)
    /\ LET r == check(remaining_to_find, DecFloor(remaining_chances), over)
       IN  /\ ret' = r.ret
           /\ over' = r.over
    /\ hist' = IF synced THEN hist ELSE Append(hist, [ev |-> "incorrect", out |-> ret'])
    /\ UNCHANGED <<total_to_find, total_chances, remaining_to_find, synced>>
    /\ UNCHANGED <<roundVars, uiVars>>

\* RoundController.record_incorrect: what the call does to the controller
record_incorrect_call ==
    /\ synced \/ Len(hist) < MaxEvents
    /\ op' = "record_incorrect"
    /\ args' = <<>>
    /\ IF over
       THEN /\ ret' = "continue"
            /\ UNCHANGED <<remaining_chances, over>>
       ELSE /\ remaining_chances' = DecFloor(remaining_chances)
            /\ LET r == check(remaining_to_find, DecFloor(remaining_chances), over)
               IN  /\ ret' = r.ret
                   /\ over' = r.over
    /\ hist' = IF synced THEN hist ELSE Append(hist, [ev |-> "incorrect", out |-> ret'])
    /\ UNCHANGED <<total_to_find, total_chances, remaining_to_find, synced>>

record_incorrect ==
    /\ record_incorrect_call
    /\ UNCHANGED <<roundVars, uiVars>>

\* an outcome() that latches over when it reports a terminal value, as _check does
outcome_query_latches ==
    /\ op' = "outcome"
    /\ args' = <<>>
    /\ ret' = outcome(remaining_to_find, remaining_chances)
    /\ over' = (over \/ ret' # "continue")
    /\ UNCHANGED <<total_to_find, total_chances, remaining_to_find,
                   remaining_chances, hist, synced>>
    /\ UNCHANGED <<roundVars, uiVars>>

\* the outcome() query as an operation of the controller
outcome_query ==
    /\ op' = "outcome"
    /\ args' = <<>>
    /\ ret' = outcome(remaining_to_find, remaining_chances)
    /\ UNCHANGED <<total_to_find, total_chances, remaining_to_find,
                   remaining_chances, over, hist, synced>>
    /\ UNCHANGED <<roundVars, uiVars>>

\* What a phone_frame attribute can hold: nothing (the attribute is missing), an
\* int, a float (val + 0.5), a non-numeric string, or None.  The numbers are
\* counters of the UI, which are never negative (ui/grid.py:304-307).
Missing == [kind |-> "missing"]
PhoneVals ==
    {Missing, [kind |-> "str"], [kind |-> "none"]}
        \cup [kind : {"int"}, val : 0..MaxChances]
        \cup [kind : {"float"}, val : 0..MaxFloat]

\* int(v) succeeds on ints and floats and raises on the rest
Convertible(v) == v.kind \in {"int", "float"}
\* int(v): an int is itself, a float is truncated
int(v) == v.val

\* getattr(phone_frame, name, default) followed by int(...): the attribute's
\* value, or the default (already an int) when the attribute is missing
GetInt(v, default) == IF v = Missing THEN default ELSE int(v)
Raises(v) == v # Missing /\ ~Convertible(v)
\* How an attribute is held, as far as getattr and int() can tell
Held(v) ==
    IF v = Missing THEN "missing"
    ELSE IF Convertible(v) THEN "number" ELSE "unconvertible"

\* sync_from_phone without its try/except: a failing int() leaves the method
\* as an exception, after the assignments already made
sync_from_phone_unguarded ==
    \E nif \in PhoneVals, cr \in PhoneVals :
        /\ op' = "sync_from_phone"
        /\ args' = <<Held(nif), Held(cr)>>
        /\ ret' = IF Raises(nif) \/ Raises(cr) THEN "raised" ELSE "none"
        /\ IF Raises(nif)
           THEN UNCHANGED <<remaining_to_find, remaining_chances>>
           ELSE /\ remaining_to_find' = GetInt(nif, remaining_to_find)
                /\ IF Raises(cr)
                   THEN UNCHANGED remaining_chances
                   ELSE remaining_chances' = GetInt(cr, remaining_chances)
        /\ hist' = <<>>
        /\ synced' = TRUE
        /\ UNCHANGED <<total_to_find, total_chances, over>>
        /\ UNCHANGED <<roundVars, uiVars>>

sync_from_phone ==
    \E nif \in PhoneVals, cr \in PhoneVals :
        /\ op' = "sync_from_phone"
        /\ args' = <<Held(nif), Held(cr)>>
        /\ ret' = "none"
        /\ IF Raises(nif)
           THEN UNCHANGED <<remaining_to_find, remaining_chances>>
           ELSE /\ remaining_to_find' = GetInt(nif, remaining_to_find)
                /\ IF Raises(cr)
                   THEN UNCHANGED remaining_chances
                   ELSE remaining_chances' = GetInt(cr, remaining_chances)
        /\ hist' = <<>>
        /\ synced' = TRUE
        /\ UNCHANGED <<total_to_find, total_chances, over>>
        /\ UNCHANGED <<roundVars, uiVars>>

\* ----------------------------------------------------------- choose_round
\* File names are sequences of characters; "png" and "txt" stand for the three
\* characters of an extension.  ss is the one character U+00DF, whose upper()
\* is the two characters "SS".
Universe ==
    { <<".", "png">>,
      <<"A", ".", "png">>,
      <<"B", "a", ".", "png">>,
      <<"a", "b", ".", "png">>,
      <<"b", ".", "png">>,
      <<"ss", ".", "png">>,
      <<"a", ".", "txt">> }

\* The code point that orders a character in sorted().
Code(c) ==
    CASE c = "." -> 46 [] c = "A" -> 65 [] c = "B" -> 66 [] c = "S" -> 83
      [] c = "a" -> 97 [] c = "b" -> 98 [] c = "png" -> 112 [] c = "s" -> 115
      [] c = "txt" -> 116 [] c = "ss" -> 223

\* str < str: the first differing character decides, a proper prefix is smaller
LexLess(a, b) ==
    \E i \in 1..Len(b) :
        /\ \A j \in 1..(i - 1) : j <= Len(a) /\ a[j] = b[j]
        /\ \/ i = Len(a) + 1
           \/ i <= Len(a) /\ Code(a[i]) < Code(b[i])

RECURSIVE sorted(_)
\* sorted(S): the members of S in ascending order
sorted(S) ==
    IF S = {} THEN <<>>
    ELSE LET m == CHOOSE x \in S : \A y \in S : x = y \/ LexLess(x, y)
         IN  <<m>> \o sorted(S \ {m})

Range(s) == {s[i] : i \in 1..Len(s)}

\* folder.glob("*.png"): the entries whose name ends in ".png"
IsPng(name) ==
    /\ Len(name) >= 2
    /\ name[Len(name)] = "png"
    /\ name[Len(name) - 1] = "."

\* _files_in: sorted PNG file names of the folder
files_in(dir) == sorted({name \in dir : IsPng(name)})

\* Path(f).stem: the name up to its last dot, when that dot is neither the
\* first nor the last character; the whole name otherwise
stem(name) ==
    LET dots == {i \in 1..Len(name) : name[i] = "."}
    IN  IF dots = {} THEN name
        ELSE LET i == CHOOSE d \in dots : \A e \in dots : e <= d
             IN  IF i > 1 /\ i < Len(name) THEN SubSeq(name, 1, i - 1) ELSE name

\* str.upper() of one character (a string: U+00DF becomes "SS")
upper(c) ==
    CASE c = "a" -> <<"A">> [] c = "b" -> <<"B">> [] c = "s" -> <<"S">>
      [] c = "ss" -> <<"S", "S">> [] OTHER -> <<c>>

lowerChar(c) ==
    CASE c = "A" -> "a" [] c = "B" -> "b" [] c = "S" -> "s" [] OTHER -> c

\* str.lower(), character by character
lower(str) == [i \in 1..Len(str) |-> lowerChar(str[i])]

\* str.startswith(prefix)
startswith(str, prefix) ==
    /\ Len(prefix) <= Len(str)
    /\ \A i \in 1..Len(prefix) : str[i] = prefix[i]

\* rounds.py:44: the stems that are not empty
stems(files) ==
    SelectSeq([i \in 1..Len(files) |-> stem(files[i])], LAMBDA st : st # <<>>)

\* rounds.py:45: the distinct uppercased first characters, sorted
letters_of(files) ==
    sorted({upper(stems(files)[i][1]) : i \in 1..Len(stems(files))})

\* matches compared without lower() on either side
matches_case_sensitive(l) ==
    SelectSeq(all_files, LAMBDA f : startswith(stem(f), l))

\* rounds.py:55
matches(l) ==
    SelectSeq(all_files, LAMBDA f : startswith(lower(stem(f)), lower(l)))

\* nonmatches that keeps the matches in (the filter of rounds.py:54 left out)
nonmatches_all(l) == all_files

\* rounds.py:56
nonmatches(l) ==
    LET m == Range(matches(l))
    IN  SelectSeq(all_files, LAMBDA f : f \notin m)

\* rng.sample(population, n) for 0 <= n <= len(population): n distinct members.
\* The order sample returns them in is not kept: rng.shuffle, which follows,
\* can leave the list in every order.
sample(population, n) == {S \in SUBSET Range(population) : Cardinality(S) = n}

\* rng.shuffle of a list with the members S: every order of them
shuffle(S) ==
    {s \in [1..Cardinality(S) -> S] : \A i, j \in 1..Cardinality(S) : s[i] = s[j] => i = j}

NoError == [type |-> "none", msg |-> ""]

Raise(type, msg) ==
    /\ pc' = "raised"
    /\ raised' = [type |-> type, msg |-> msg]
    /\ UNCHANGED <<selected, correct>>

\* The three exceptions choose_round raises itself (rounds.py:42, 47, 67-70)
PoolTooSmall == [type |-> "RuntimeError", msg |-> "Need at least k PNGs"]
NoValidStems ==
    [type |-> "RuntimeError", msg |-> "No valid stems to choose a letter from."]
ConstraintsNotMet ==
    [type |-> "RuntimeError", msg |-> "Could not build a round that meets the constraints"]

\* choose_round that looks for letters before it counts the pool
choose_round_enter_stems_first ==
    /\ pc = "start"
    /\ all_files' = files_in(folder)
    /\ letters_present' = letters_of(all_files')
    /\ IF letters_present' = <<>>
       THEN Raise("RuntimeError", "No valid stems to choose a letter from.")
       ELSE IF Len(all_files') < k
       THEN Raise("RuntimeError", "Need at least k PNGs")
       ELSE /\ pc' = "loop"
            /\ UNCHANGED <<selected, correct, raised>>
    /\ UNCHANGED <<folder, k, min_correct, max_correct, max_attempts, attempts,
                   draws, letter, target_correct>>
    /\ UNCHANGED <<ctlVars, uiVars>>

\* rounds.py:40-49: the two checks made before the loop
choose_round_enter ==
    /\ pc = "start"
    /\ all_files' = files_in(folder)
    /\ IF Len(all_files') < k
       THEN /\ Raise("RuntimeError", "Need at least k PNGs")
            /\ UNCHANGED letters_present
       ELSE /\ letters_present' = letters_of(all_files')
            /\ IF letters_present' = <<>>
               THEN Raise("RuntimeError", "No valid stems to choose a letter from.")
               ELSE /\ pc' = "loop"
                    /\ UNCHANGED <<selected, correct, raised>>
    /\ UNCHANGED <<folder, k, min_correct, max_correct, max_attempts, attempts,
                   draws, letter, target_correct>>
    /\ UNCHANGED <<ctlVars, uiVars>>

\* A loop body that wants more matches than the target (<= for < at rounds.py:56)
choose_round_attempt_strict ==
    /\ pc = "loop"
    /\ attempts < max_attempts
    /\ attempts' = attempts + 1
    /\ \E l \in Range(letters_present) :
        /\ letter' = l
        /\ IF min_correct > max_correct
           THEN \* rng.randint on an empty range
                /\ Raise("ValueError", "empty range for randrange()")
                /\ draws' = draws + 2
                /\ UNCHANGED target_correct
           ELSE \E t \in min_correct..max_correct :
               /\ target_correct' = t
               /\ IF \/ Len(matches(l)) <= t
                     \/ Len(nonmatches(l)) < k - t
                  THEN \* continue
                       /\ draws' = draws + 2
                       /\ UNCHANGED <<pc, selected, correct, raised>>
                  ELSE IF k - t < 0
                  THEN \* the second rng.sample is asked for a negative number
                       /\ Raise("ValueError", "Sample larger than population or is negative")
                       /\ draws' = draws + 4
                  ELSE \E correct_sel \in sample(matches(l), t),
                          distractors \in sample(nonmatches(l), k - t) :
                          \E sel \in shuffle(correct_sel \cup distractors) :
                              /\ pc' = "returned"
                              /\ selected' = sel
                              /\ correct' = correct_sel
                              /\ draws' = draws + 5
                              /\ UNCHANGED raised
    /\ UNCHANGED <<folder, k, min_correct, max_correct, max_attempts,
                   all_files, letters_present>>
    /\ UNCHANGED <<ctlVars, uiVars>>

\* A loop body that compares the matches only (rounds.py:56 without its
\* second comparison); rng.sample raises when asked for more than there is
choose_round_attempt_half_checked ==
    /\ pc = "loop"
    /\ attempts < max_attempts
    /\ attempts' = attempts + 1
    /\ \E l \in Range(letters_present) :
        /\ letter' = l
        /\ IF min_correct > max_correct
           THEN \* rng.randint on an empty range
                /\ Raise("ValueError", "empty range for randrange()")
                /\ draws' = draws + 2
                /\ UNCHANGED target_correct
           ELSE \E t \in min_correct..max_correct :
               /\ target_correct' = t
               /\ IF Len(matches(l)) < t
                  THEN \* continue
                       /\ draws' = draws + 2
                       /\ UNCHANGED <<pc, selected, correct, raised>>
                  ELSE IF k - t < 0 \/ Len(nonmatches(l)) < k - t
                  THEN \* the second rng.sample is asked for a negative number
                       /\ Raise("ValueError", "Sample larger than population or is negative")
                       /\ draws' = draws + 4
                  ELSE \E correct_sel \in sample(matches(l), t),
                          distractors \in sample(nonmatches(l), k - t) :
                          \E sel \in shuffle(correct_sel \cup distractors) :
                              /\ pc' = "returned"
                              /\ selected' = sel
                              /\ correct' = correct_sel
                              /\ draws' = draws + 5
                              /\ UNCHANGED raised
    /\ UNCHANGED <<folder, k, min_correct, max_correct, max_attempts,
                   all_files, letters_present>>
    /\ UNCHANGED <<ctlVars, uiVars>>

\* rounds.py:50-65: one pass of the loop body
choose_round_attempt ==
    /\ pc = "loop"
    /\ attempts < max_attempts
    /\ attempts' = attempts + 1
    /\ \E l \in Range(letters_present) :
        /\ letter' = l
        /\ IF min_correct > max_correct
           THEN \* rng.randint on an empty range
                /\ Raise("ValueError", "empty range for randrange()")
                /\ draws' = draws + 2
                /\ UNCHANGED target_correct
           ELSE \E t \in min_correct..max_correct :
               /\ target_correct' = t
               /\ IF \/ Len(matches(l)) < t
                     \/ Len(nonmatches(l)) < k - t
                  THEN \* continue
                       /\ draws' = draws + 2
                       /\ UNCHANGED <<pc, selected, correct, raised>>
                  ELSE IF k - t < 0
                  THEN \* the second rng.sample is asked for a negative number
                       /\ Raise("ValueError", "Sample larger than population or is negative")
                       /\ draws' = draws + 4
                  ELSE \E correct_sel \in sample(matches(l), t),
                          distractors \in sample(nonmatches(l), k - t) :
                          \E sel \in shuffle(correct_sel \cup distractors) :
                              /\ pc' = "returned"
                              /\ selected' = sel
                              /\ correct' = correct_sel
                              /\ draws' = draws + 5
                              /\ UNCHANGED raised
    /\ UNCHANGED <<folder, k, min_correct, max_correct, max_attempts,
                   all_files, letters_present>>
    /\ UNCHANGED <<ctlVars, uiVars>>

\* A loop that gives up one pass early (attempts < max_attempts - 1)
choose_round_exhausted_early ==
    /\ pc = "loop"
    /\ attempts >= max_attempts - 1
    /\ Raise("RuntimeError", "Could not build a round that meets the constraints")
    /\ UNCHANGED <<folder, k, min_correct, max_correct, max_attempts,
                   all_files, letters_present, attempts, draws, letter, target_correct>>
    /\ UNCHANGED <<ctlVars, uiVars>>

\* rounds.py:50, 67-70: the loop ran out of attempts
choose_round_exhausted ==
    /\ pc = "loop"
    /\ attempts >= max_attempts
    /\ Raise("RuntimeError", "Could not build a round that meets the constraints")
    /\ UNCHANGED <<folder, k, min_correct, max_correct, max_attempts,
                   all_files, letters_present, attempts, draws, letter, target_correct>>
    /\ UNCHANGED <<ctlVars, uiVars>>

\* A call choose_round(rng, folder, k, min_correct, max_correct, max_attempts)
choose_round_call(dir, kk, lo, hi, ma) ==
    /\ folder = dir
    /\ k = kk
    /\ min_correct = lo
    /\ max_correct = hi
    /\ max_attempts = ma
    /\ pc = "start"
    /\ all_files = <<>>
    /\ letters_present = <<>>
    /\ attempts = 0
    /\ draws = 0
    /\ letter = <<>>
    /\ target_correct = 0
    /\ selected = <<>>
    /\ correct = {}
    /\ raised = NoError

\* No choose_round call is in progress.
RoundIdle ==
    /\ folder = {}
    /\ k = 0
    /\ min_correct = 0
    /\ max_correct = 0
    /\ max_attempts = 0
    /\ pc = "idle"
    /\ all_files = <<>>
    /\ letters_present = <<>>
    /\ attempts = 0
    /\ draws = 0
    /\ letter = <<>>
    /\ target_correct = 0
    /\ selected = <<>>
    /\ correct = {}
    /\ raised = NoError

\* ------------------------------------------------------------------- the UI
\* The tiles of a round are numbered 1..GRID_COUNT with the correct ones first:
\* a click handler reads its tile's file only to test it against correct_images
\* (grid.py:416), so the place of a tile on the grid is not kept.

\* No window exists.
UIIdle ==
    /\ window = "none"
    /\ round_over = FALSE
    /\ play_again_btn = "disabled"
    /\ has_counters = FALSE
    /\ num_images_to_find = 0
    /\ initial_num_images_to_find = 0
    /\ chances_remaining = 0
    /\ initial_chances = 0
    /\ tiles = {}
    /\ correct_images = {}
    /\ tapped = {}
    /\ ui_op = "none"
    /\ tap_correct = FALSE
    /\ end_branch = "none"

\* layout.create_phone_frame, as main() calls it before the first round
create_phone_frame ==
    /\ window = "created"
    /\ round_over = FALSE
    /\ play_again_btn = "disabled"
    /\ has_counters = FALSE
    /\ num_images_to_find = 0
    /\ initial_num_images_to_find = 0
    /\ chances_remaining = 0
    /\ initial_chances = 0
    /\ tiles = {}
    /\ correct_images = {}
    /\ tapped = {}
    /\ ui_op = "create_phone_frame"
    /\ tap_correct = FALSE
    /\ end_branch = "none"

\* start_round without enable(play_again_btn, False) (main.py:48 left out)
start_round_keeps_button(on_error) ==
    /\ ui_op' = "start_round"
    /\ UNCHANGED play_again_btn
    /\ round_over' = FALSE
    /\ tapped' = {}
    /\ tap_correct' = FALSE
    /\ UNCHANGED end_branch
    /\ \/ /\ window' = on_error
          /\ tiles' = {}
          /\ correct_images' = {}
          /\ UNCHANGED <<has_counters, num_images_to_find, initial_num_images_to_find,
                         chances_remaining, initial_chances>>
       \/ \E n \in MIN_CORRECT..MAX_CORRECT :
          /\ window' = "mainloop"
          /\ has_counters' = TRUE
          /\ num_images_to_find' = n
          /\ initial_num_images_to_find' = n
          /\ chances_remaining' = n + 1
          /\ initial_chances' = n + 1
          /\ tiles' = 1..GRID_COUNT
          /\ correct_images' = 1..n
    /\ UNCHANGED <<ctlVars, roundVars>>

\* start_round that gives as many chances as there are items to find
start_round_equal_chances(on_error) ==
    /\ ui_op' = "start_round"
    /\ play_again_btn' = "disabled"
    /\ round_over' = FALSE
    /\ tapped' = {}
    /\ tap_correct' = FALSE
    /\ UNCHANGED end_branch
    /\ \/ /\ window' = on_error
          /\ tiles' = {}
          /\ correct_images' = {}
          /\ UNCHANGED <<has_counters, num_images_to_find, initial_num_images_to_find,
                         chances_remaining, initial_chances>>
       \/ \E n \in MIN_CORRECT..MAX_CORRECT :
          /\ window' = "mainloop"
          /\ has_counters' = TRUE
          /\ num_images_to_find' = n
          /\ initial_num_images_to_find' = n
          /\ chances_remaining' = n
          /\ initial_chances' = n + 1
          /\ tiles' = 1..GRID_COUNT
          /\ correct_images' = 1..n
    /\ UNCHANGED <<ctlVars, roundVars>>

\* main.start_round.  choose_round either raises, which leaves the cleared
\* window with the counters of the round before (window becomes on_error), or
\* returns a RoundState of GRID_COUNT tiles, n of them correct, for an n in
\* MIN_CORRECT..MAX_CORRECT.
start_round(on_error) ==
    /\ ui_op' = "start_round"
    /\ play_again_btn' = "disabled"
    /\ round_over' = FALSE
    /\ tapped' = {}
    /\ tap_correct' = FALSE
    /\ UNCHANGED end_branch
    /\ \/ /\ window' = on_error
          /\ tiles' = {}
          /\ correct_images' = {}
          /\ UNCHANGED <<has_counters, num_images_to_find, initial_num_images_to_find,
                         chances_remaining, initial_chances>>
       \/ \E n \in MIN_CORRECT..MAX_CORRECT :
          /\ window' = "mainloop"
          /\ has_counters' = TRUE
          /\ num_images_to_find' = n
          /\ initial_num_images_to_find' = n
          /\ chances_remaining' = n + 1
          /\ initial_chances' = n + 1
          /\ tiles' = 1..GRID_COUNT
          /\ correct_images' = 1..n
    /\ UNCHANGED <<ctlVars, roundVars>>

\* main(): the first round, started before the main loop; an exception ends main
main_first_round ==
    /\ window = "created"
    /\ start_round("crashed")

\* The Play again button's command, which Tk runs only while the button is not
\* disabled; an exception in it is reported and the main loop goes on
on_play_again ==
    /\ window = "mainloop"
    /\ play_again_btn = "normal"
    /\ start_round("mainloop")

\* The Exit button's command
exit_app ==
    /\ window = "mainloop"
    /\ window' = "closed"
    /\ ui_op' = "exit"
    /\ UNCHANGED <<round_over, play_again_btn, has_counters, num_images_to_find,
                   initial_num_images_to_find, chances_remaining, initial_chances,
                   tiles, correct_images, tapped, tap_correct, end_branch>>
    /\ UNCHANGED <<ctlVars, roundVars>>

\* Counters that spend a chance on an incorrect tap only, as RoundController does
apply_click_effects_like_controller(is_correct) ==
    [chances_remaining |->
        IF ~is_correct /\ has_counters /\ chances_remaining > 0
        THEN chances_remaining - 1 ELSE chances_remaining,
     num_images_to_find |->
        IF is_correct /\ has_counters /\ num_images_to_find > 0
        THEN num_images_to_find - 1 ELSE num_images_to_find]

\* grid._apply_click_effects_and_counters: the two counters after the tap
apply_click_effects_and_counters(is_correct) ==
    [chances_remaining |->
        IF has_counters /\ chances_remaining > 0
        THEN chances_remaining - 1 ELSE chances_remaining,
     num_images_to_find |->
        IF is_correct /\ has_counters /\ num_images_to_find > 0
        THEN num_images_to_find - 1 ELSE num_images_to_find]

\* _maybe_end_round with the no-chances test ahead of the too-few-chances test
maybe_end_round_chances_first(nif, cr) ==
    IF ~has_counters THEN "none"
    ELSE IF nif = 0 THEN "win"
    ELSE IF cr = 0 THEN "no_chances"
    ELSE IF nif > 0 /\ cr >= 0 /\ nif > cr THEN "too_few"
    ELSE "none"

\* grid._maybe_end_round on those counters: the branch that calls end_round
maybe_end_round(nif, cr) ==
    IF ~has_counters THEN "none"
    ELSE IF nif = 0 THEN "win"
    ELSE IF nif > 0 /\ cr >= 0 /\ nif > cr THEN "too_few"
    ELSE IF cr = 0 THEN "no_chances"
    ELSE "none"

\* A click handler that goes on to the counters when the round is over
evaluate_image_click_composite_unguarded(t) ==
    /\ window = "mainloop"
    /\ t \in tiles
    /\ ui_op' = "tap"
    /\ tap_correct' = (t \in correct_images)
    /\ tapped' = tapped \cup {t}
    /\ LET c == apply_click_effects_and_counters(t \in correct_images)
           b == maybe_end_round(c.num_images_to_find, c.chances_remaining)
       IN  /\ num_images_to_find' = c.num_images_to_find
           /\ chances_remaining' = c.chances_remaining
           /\ IF b = "none"
              THEN UNCHANGED <<round_over, play_again_btn, end_branch>>
              ELSE /\ play_again_btn' = "normal"
                   /\ round_over' = TRUE
                   /\ end_branch' = b
    /\ UNCHANGED <<window, has_counters, initial_num_images_to_find, initial_chances,
                   tiles, correct_images>>
    /\ UNCHANGED <<ctlVars, roundVars>>

\* grid.evaluate_image_click_composite, the <Button-1> handler of tile t, with
\* text.end_round where _maybe_end_round calls it
on_tap(t) ==
    /\ window = "mainloop"
    /\ t \in tiles
    /\ ui_op' = "tap"
    /\ tap_correct' = (t \in correct_images)
    /\ tapped' = tapped \cup {t}
    /\ IF round_over
       THEN UNCHANGED <<num_images_to_find, chances_remaining, round_over,
                        play_again_btn, end_branch>>
       ELSE LET c == apply_click_effects_and_counters(t \in correct_images)
                b == maybe_end_round(c.num_images_to_find, c.chances_remaining)
            IN  /\ num_images_to_find' = c.num_images_to_find
                /\ chances_remaining' = c.chances_remaining
                /\ IF b = "none"
                   THEN UNCHANGED <<round_over, play_again_btn, end_branch>>
                   ELSE /\ play_again_btn' = "normal"
                        /\ round_over' = TRUE
                        /\ end_branch' = b
    /\ UNCHANGED <<window, has_counters, initial_num_images_to_find, initial_chances,
                   tiles, correct_images>>

\* The handler in the window alone
evaluate_image_click_composite(t) ==
    /\ on_tap(t)
    /\ UNCHANGED <<ctlVars, roundVars>>

\* A tap on any tile of the grid
tile_tap == \E t \in 1..GRID_COUNT : evaluate_image_click_composite(t)

\* ------------------------------------------------------- specifications
Init ==
    /\ \E ttf \in 0..MaxFind, tc \in 0..MaxChances : RoundController_init(ttf, tc)
    /\ RoundIdle
    /\ UIIdle

Next ==
    \/ record_correct
    \/ record_incorrect
    \/ outcome_query
    \/ sync_from_phone

Spec == Init /\ [][Next]_vars

\* The composer alone: one choose_round call on every folder and arguments
InitRound ==
    /\ \E dir \in SUBSET Universe, kk \in 0..MaxK, lo \in 0..MaxCorrect,
          hi \in 0..MaxCorrect, ma \in 0..MaxAttempts :
            choose_round_call(dir, kk, lo, hi, ma)
    /\ RoundController_init(0, 0)
    /\ UIIdle

NextRound ==
    \/ choose_round_enter
    \/ choose_round_attempt
    \/ choose_round_exhausted

SpecRound == InitRound /\ [][NextRound]_vars

\* The window alone: main() from create_phone_frame on, with the player's
\* taps and button presses
InitUI ==
    /\ create_phone_frame
    /\ RoundController_init(0, 0)
    /\ RoundIdle

NextUI ==
    \/ main_first_round
    \/ on_play_again
    \/ tile_tap
    \/ exit_app

SpecUI == InitUI /\ [][NextUI]_vars

\* The window as start_round leaves it when choose_round returned a round of
\* n correct tiles: the state the first tap of a round finds
round_started(n) ==
    /\ window = "mainloop"
    /\ round_over = FALSE
    /\ play_again_btn = "disabled"
    /\ has_counters = TRUE
    /\ num_images_to_find = n
    /\ initial_num_images_to_find = n
    /\ chances_remaining = n + 1
    /\ initial_chances = n + 1
    /\ tiles = 1..GRID_COUNT
    /\ correct_images = 1..n
    /\ tapped = {}
    /\ ui_op = "start_round"
    /\ tap_correct = FALSE
    /\ end_branch = "none"

\* A tap on a correct tile, reported to the controller as record_correct
report_correct_tap ==
    /\ \E t \in correct_images : on_tap(t)
    /\ record_correct_call
    /\ UNCHANGED roundVars

\* A tap on any other tile, reported to the controller as record_incorrect
report_incorrect_tap ==
    /\ \E t \in tiles \ correct_images : on_tap(t)
    /\ record_incorrect_call
    /\ UNCHANGED roundVars

\* One round played on the window and on a RoundController of the same round
\* (n to find, n + 1 chances), each tap reported to the controller
InitGame ==
    /\ \E n \in MIN_CORRECT..MAX_CORRECT :
          /\ round_started(n)
          /\ RoundController_init(n, n + 1)
    /\ RoundIdle

NextGame ==
    \/ report_correct_tap
    \/ report_incorrect_tap

SpecGame == InitGame /\ [][NextGame]_vars

\* ---------------------------------------------------------------- properties
records == {"record_correct", "record_incorrect"}
Terminal == {"win", "lose", "impossible"}

\* The events of a history and the outcomes they returned
Events(h) == [i \in 1..Len(h) |-> h[i].ev]
Outs(h) == [i \in 1..Len(h) |-> h[i].out]

\* "stem starts with letter, case-insensitive"
StartsWithCI(st, l) ==
    /\ Len(l) <= Len(st)
    /\ \A i \in 1..Len(l) : lowerChar(st[i]) = lowerChar(l[i])

\* The evaluation order stated for the controller: win, lose, impossible, continue
Evaluate(rtf, rc) ==
    IF rtf <= 0 THEN "win"
    ELSE IF rc <= 0 THEN "lose"
    ELSE IF rtf > rc THEN "impossible"
    ELSE "continue"

ValidBounds == 0 <= min_correct /\ min_correct <= max_correct /\ max_correct <= k

\* C1: with 0 <= min_correct <= max_correct <= k, every RoundState choose_round
\* returns has k selected items, correct a subset of selected of a size within
\* [min_correct, max_correct], every correct item's stem starting with the letter
\* (case-insensitive) and no other selected item's stem doing so.
C1_RoundStateValid ==
    (pc = "returned" /\ ValidBounds) =>
        /\ Len(selected) = k
        /\ correct \subseteq Range(selected)
        /\ min_correct <= Cardinality(correct)
        /\ Cardinality(correct) <= max_correct
        /\ \A f \in correct : StartsWithCI(stem(f), letter)
        /\ \A f \in Range(selected) \ correct : ~StartsWithCI(stem(f), letter)

\* a round returned whose correct set holds a stem in the other case than the
\* letter, beside at least one distractor
C1_Witness ==
    /\ pc = "returned"
    /\ ValidBounds
    /\ Range(selected) \ correct # {}
    /\ \E f \in correct : stem(f)[1] # letter[1]

\* C2: an event that is not ignored, and the outcome() query, report win if
\* remaining_to_find <= 0, else lose if remaining_chances <= 0, else impossible
\* if remaining_to_find > remaining_chances, else continue; record_correct at
\* remaining_to_find = 1, remaining_chances = 1 reports win.
C2_EvaluationOrder ==
    [][ /\ (op' = "outcome" \/ (op' \in records /\ ~over))
            => ret' = Evaluate(remaining_to_find', remaining_chances')
        /\ (op' = "record_correct" /\ ~over /\ remaining_to_find = 1
                /\ remaining_chances = 1)
            => ret' = "win" ]_vars

\* record_correct has just taken remaining_to_find from 1 to 0 with one chance left
C2_Witness ==
    /\ ~synced
    /\ total_to_find >= 1
    /\ op = "record_correct"
    /\ remaining_to_find = 0
    /\ remaining_chances = 1
    /\ ret = "win"

\* C3: on a controller that is not over, record_correct lowers remaining_to_find
\* by 1 (0 stays 0) and nothing else; record_incorrect lowers remaining_chances
\* by 1 (0 stays 0) and nothing else.
C3_EventFrame ==
    [][ /\ (op' = "record_correct" /\ ~over) =>
            /\ remaining_to_find' =
                   (IF remaining_to_find = 0 THEN 0 ELSE remaining_to_find - 1)
            /\ UNCHANGED <<remaining_chances, total_to_find, total_chances>>
        /\ (op' = "record_incorrect" /\ ~over) =>
            /\ remaining_chances' =
                   (IF remaining_chances = 0 THEN 0 ELSE remaining_chances - 1)
            /\ UNCHANGED <<remaining_to_find, total_to_find, total_chances>> ]_vars

\* a first record_correct that lowered remaining_to_find and left the chances
C3_Witness ==
    /\ ~synced
    /\ op = "record_correct"
    /\ Len(hist) = 1
    /\ total_to_find >= 1
    /\ remaining_to_find = total_to_find - 1
    /\ remaining_chances = total_chances
    /\ remaining_chances >= 1

\* C4: once over, every record_correct/record_incorrect call returns continue
\* and leaves the four counters and over unchanged.
C4_IgnoredAfterOver ==
    [][ (over /\ op' \in records) =>
            /\ ret' = "continue"
            /\ UNCHANGED <<remaining_to_find, remaining_chances, total_to_find,
                           total_chances, over>> ]_vars

\* a terminal outcome followed by at least one call of each kind
C4_Witness ==
    /\ over
    /\ op \in records
    /\ ret = "continue"
    /\ \E i \in 1..Len(hist) :
        /\ hist[i].out \in Terminal
        /\ \E j, l \in (i + 1)..Len(hist) :
            hist[j].ev = "correct" /\ hist[l].ev = "incorrect"

\* a controller built for n >= 1 items and n + 1 chances, driven by events only
ReferencePolicy ==
    total_to_find >= 1 /\ total_chances = total_to_find + 1 /\ ~synced

\* C5: for total_to_find = n >= 1 and total_chances = n + 1, driven by events
\* only, over is true exactly when the counters evaluate to win, lose or
\* impossible; the event that first makes remaining_to_find >
\* remaining_chances returns impossible and sets over, with remaining_chances
\* still above 0.
C5_FirstExcessIsImpossible ==
    /\ [](ReferencePolicy =>
            (over <=> Evaluate(remaining_to_find, remaining_chances) \in Terminal))
    /\ [][ (ReferencePolicy /\ ~over /\ op' \in records
                /\ ~(remaining_to_find > remaining_chances)
                /\ remaining_to_find' > remaining_chances')
            => (ret' = "impossible" /\ over' /\ remaining_chances' > 0) ]_vars

\* C5 as amended: over is true exactly when the counters evaluate to win, lose
\* or impossible; an event that leaves remaining_to_find > remaining_chances
\* while remaining_chances is still above 0 returns impossible and sets over
\* (one that leaves remaining_chances at 0 returns lose).
C5_OverIffTerminal ==
    /\ [](ReferencePolicy =>
            (over <=> Evaluate(remaining_to_find, remaining_chances) \in Terminal))
    /\ [][ (ReferencePolicy /\ ~over /\ op' \in records
                /\ ~(remaining_to_find > remaining_chances)
                /\ remaining_to_find' > remaining_chances')
            => /\ over'
               /\ ret' = (IF remaining_chances' > 0 THEN "impossible" ELSE "lose") ]_vars

\* impossible reported with chances left
C5_Witness ==
    /\ ReferencePolicy
    /\ over
    /\ ret = "impossible"
    /\ remaining_chances > 0
\* C6: across record_correct, record_incorrect, outcome and sync_from_phone the
\* two remaining counters never increase from one state to the next and are
\* never below 0.
C6_Monotone ==
    [][ /\ remaining_to_find' <= remaining_to_find
        /\ remaining_chances' <= remaining_chances
        /\ remaining_to_find' >= 0
        /\ remaining_chances' >= 0 ]_vars

RECURSIVE CanWin(_, _)
\* Some run of correct/incorrect events, each applying the controller's own
\* decrement and none stopped by the over gate, takes the counters (f, c) to
\* remaining_to_find = 0 with remaining_chances above 0.
CanWin(f, c) ==
    \/ f = 0 /\ c > 0
    \/ f > 0 /\ CanWin(DecFloor(f), c)
    \/ c > 0 /\ CanWin(f, DecFloor(c))

\* C7: whenever the controller reports impossible, no continuation of events
\* under its own decrement rules can still reach a win from the counters
\* (stated for the controllers of the reference policy, driven by events).
C7_ImpossibleIsFinal ==
    (ReferencePolicy /\ op \in records /\ ret = "impossible")
        => ~CanWin(remaining_to_find, remaining_chances)

\* C8: a controller for 2 items and 3 chances given [incorrect, incorrect,
\* incorrect] returns [continue, continue, lose] and ends with
\* remaining_chances = 0 and remaining_to_find = 2.
C8_ThreeIncorrectLose ==
    (~synced /\ total_to_find = 2 /\ total_chances = 3
        /\ Events(hist) = <<"incorrect", "incorrect", "incorrect">>)
    => /\ Outs(hist) = <<"continue", "continue", "lose">>
       /\ remaining_chances = 0
       /\ remaining_to_find = 2

\* C8 as amended: the same controller and events return [continue, impossible,
\* continue]; the round is over after the second event, with
\* remaining_chances = 1 and remaining_to_find = 2.
C8_ThreeIncorrectImpossible ==
    (~synced /\ total_to_find = 2 /\ total_chances = 3
        /\ Events(hist) = <<"incorrect", "incorrect", "incorrect">>)
    => /\ Outs(hist) = <<"continue", "impossible", "continue">>
       /\ remaining_chances = 1
       /\ remaining_to_find = 2
       /\ over

\* the three incorrect events have been given to the 2-item, 3-chance controller
C8_Witness ==
    /\ ~synced
    /\ total_to_find = 2
    /\ total_chances = 3
    /\ op = "record_incorrect"
    /\ Events(hist) = <<"incorrect", "incorrect", "incorrect">>

\* C9: a controller for 4 items and 5 chances given [incorrect, incorrect,
\* incorrect] reports continue twice and impossible on the third event, at
\* remaining_to_find = 4 and remaining_chances = 2.
C9_ImpossibleOnThird ==
    (~synced /\ total_to_find = 4 /\ total_chances = 5
        /\ Events(hist) = <<"incorrect", "incorrect", "incorrect">>)
    => /\ Outs(hist) = <<"continue", "continue", "impossible">>
       /\ remaining_to_find = 4
       /\ remaining_chances = 2

\* C9 as amended: impossible is first reported on the second event, at
\* remaining_to_find = 4 and remaining_chances = 3; the first event reports
\* continue, and the third is ignored (continue, counters unchanged).
C9_ImpossibleOnSecond ==
    (~synced /\ total_to_find = 4 /\ total_chances = 5
        /\ Len(hist) >= 2 /\ Len(hist) <= 3
        /\ \A i \in 1..Len(hist) : hist[i].ev = "incorrect")
    => /\ hist[1].out = "continue"
       /\ hist[2].out = "impossible"
       /\ Len(hist) = 3 => hist[3].out = "continue"
       /\ remaining_to_find = 4
       /\ remaining_chances = 3
       /\ over

\* the three incorrect events have been given to the 4-item, 5-chance controller
C9_Witness ==
    /\ ~synced
    /\ total_to_find = 4
    /\ total_chances = 5
    /\ op = "record_incorrect"
    /\ Events(hist) = <<"incorrect", "incorrect", "incorrect">>

\* C10: a new controller has remaining_to_find = total_to_find,
\* remaining_chances = total_chances and over = false; built for 3 items and 4
\* chances, [correct, incorrect, correct, correct] returns [continue, continue,
\* continue, win] and ends at remaining_to_find = 0, remaining_chances = 3, over.
C10_ConstructAndWin ==
    /\ op = "init" =>
        /\ remaining_to_find = total_to_find
        /\ remaining_chances = total_chances
        /\ ~over
    /\ (~synced /\ total_to_find = 3 /\ total_chances = 4
            /\ Events(hist) = <<"correct", "incorrect", "correct", "correct">>)
        => /\ Outs(hist) = <<"continue", "continue", "continue", "win">>
           /\ remaining_to_find = 0
           /\ remaining_chances = 3
           /\ over

\* the four events have been given to the 3-item, 4-chance controller
C10_Witness ==
    /\ ~synced
    /\ total_to_find = 3
    /\ total_chances = 4
    /\ op = "record_correct"
    /\ Events(hist) = <<"correct", "incorrect", "correct", "correct">>

\* C11: outcome() is a pure query: a call leaves remaining_to_find,
\* remaining_chances, total_to_find, total_chances and over as they were, also
\* when the value it reports is terminal while over is still false.
C11_OutcomeIsPure ==
    [][op' = "outcome" =>
          UNCHANGED <<remaining_to_find, remaining_chances, total_to_find,
                      total_chances, over>>]_vars

\* outcome() has just reported a terminal value and over is still false
C11_Witness ==
    /\ op = "outcome"
    /\ ret \in Terminal
    /\ ~over

\* The last record_* call was not ignored: an ignored call answers "continue"
\* with over set, a call that took effect answers "continue" only with over unset.
TookEffect == op \in records /\ ~(over /\ ret = "continue")

\* The entries of the history that ended the round
Endings(h) == {i \in 1..Len(h) : h[i].out \in Terminal}

\* C12: outcome() called right after a record_* call that took effect returns
\* what that call returned; and in a run of record_* calls and queries, once
\* over is true every outcome() call returns the terminal value that ended the
\* round, whatever record_* calls came in between.
C12_OutcomeAgrees ==
    /\ [][(TookEffect /\ op' = "outcome") => ret' = ret]_vars
    /\ []((~synced /\ over /\ op = "outcome") =>
             /\ Cardinality(Endings(hist)) = 1
             /\ \A i \in Endings(hist) : ret = hist[i].out)

\* outcome() asked after the round ended and two more record_* calls were ignored
C12_Witness ==
    /\ ~synced
    /\ over
    /\ op = "outcome"
    /\ \E i \in Endings(hist) : Len(hist) >= i + 2 /\ ret = hist[i].out

\* C19: sync_from_phone never raises; a counter whose attribute is missing on
\* the external object keeps its prior value, and a counter whose external
\* value cannot be converted to an integer is never overwritten by that value
\* (it keeps the integer it had).
C19_SyncNeverRaises ==
    [][op' = "sync_from_phone" =>
          /\ ret' = "none"
          /\ args'[1] \in {"missing", "unconvertible"} =>
                 remaining_to_find' = remaining_to_find
          /\ args'[2] \in {"missing", "unconvertible"} =>
                 remaining_chances' = remaining_chances]_vars

\* sync_from_phone has returned from an object whose chances_remaining cannot
\* be converted and whose num_images_to_find is missing
C19_Witness ==
    /\ op = "sync_from_phone"
    /\ ret = "none"
    /\ args = <<"missing", "unconvertible">>

\* The pool: the entries of the folder that are PNG files
Pool == {f \in folder : IsPng(f)}

\* C14: choose_round fails with the insufficient-pool error whenever the pool
\* has fewer than k items, and whenever no item has a non-empty stem; in both
\* cases before any random draw and without entering the loop, and the pool
\* size is checked first.
C14_PoolChecksFirst ==
    pc \in {"loop", "returned", "raised"} =>
        IF Cardinality(Pool) < k
        THEN /\ pc = "raised"
             /\ raised = PoolTooSmall
             /\ draws = 0
             /\ attempts = 0
        ELSE (\A f \in Pool : stem(f) = <<>>) =>
             /\ pc = "raised"
             /\ raised = NoValidStems
             /\ draws = 0
             /\ attempts = 0

\* The call failed on the size of a pool that has no stem either
C14_Witness ==
    /\ pc = "raised"
    /\ raised = PoolTooSmall
    /\ \A f \in Pool : stem(f) = <<>>
    /\ draws = 0

\* The drawn pair can be served: enough matches and enough non-matches
Feasible(l, t) ==
    /\ Len(matches(l)) >= t
    /\ Len(nonmatches(l)) >= k - t

\* At least one pass of the loop was made, and it drew both the letter and
\* the target (letter and target_correct hold the pair drawn last)
PairDrawn ==
    /\ attempts >= 1
    /\ min_correct <= max_correct

\* The call has returned the pair drawn last when that pair is feasible; when
\* it is not, the call went on to the next pass, having made two draws in
\* every pass so far, or found the attempts used up
FirstFeasible ==
    IF Feasible(letter, target_correct)
    THEN /\ pc = "returned"
         /\ Cardinality(correct) = target_correct
    ELSE \/ pc = "loop" /\ draws = 2 * attempts
         \/ pc = "raised" /\ raised = ConstraintsNotMet

\* The call ends within max_attempts + 2 steps: the step before the loop enters
\* it or ends the call, every step of the loop ends the call or counts as one
\* more attempt, and there are at most max_attempts attempts
Terminates ==
    /\ [](attempts <= max_attempts)
    /\ [][pc = "start" => pc' \in {"loop", "raised"}]_vars
    /\ [][pc = "loop" => pc' \in {"returned", "raised"} \/ attempts' = attempts + 1]_vars

\* The unsatisfiable-constraints error is raised after max_attempts passes, and
\* always once they are used up
ExhaustedExactly ==
    /\ []((pc = "raised" /\ raised = ConstraintsNotMet) => attempts = max_attempts)
    /\ [][(pc = "loop" /\ attempts = max_attempts) =>
             (pc' = "raised" /\ raised' = ConstraintsNotMet)]_vars

\* C15 as claimed: choose_round always terminates; it draws at most
\* max_attempts (letter, target) pairs, both drawn anew on every retry; it
\* returns at the first drawn pair with |matches| >= target and
\* |non-matches| >= k - target; and it fails with the unsatisfiable-constraints
\* error exactly when all max_attempts drawn pairs were infeasible.
C15_FirstFeasibleReturns ==
    /\ Terminates
    /\ ExhaustedExactly
    /\ [](PairDrawn => FirstFeasible)

\* C15 amended: the same for max_correct <= k; a drawn target above k whose
\* letter has that many matches passes both comparisons and ends the call in
\* a ValueError instead.
C15_FirstFeasibleReturnsWithinK ==
    /\ Terminates
    /\ ExhaustedExactly
    /\ []((PairDrawn /\ max_correct <= k) => FirstFeasible)

\* The call returned on its second pass, the first pair having been infeasible
C15_Witness ==
    /\ pc = "returned"
    /\ attempts = 2
    /\ max_correct <= k
    /\ Feasible(letter, target_correct)

\* The pool has exactly k items and no letter of it starts min_correct of them
TooFewSharers ==
    /\ Cardinality(Pool) = k
    /\ \A l \in Range(letters_present) : Len(matches(l)) < min_correct

\* C16 as claimed: for a pool of exactly k items in which every letter is
\* shared by fewer than min_correct items, choose_round never returns a
\* RoundState: it raises the unsatisfiable-constraints error after exactly
\* max_attempts attempts.
C16_NeverReturns ==
    (pc \in {"returned", "raised"} /\ TooFewSharers) =>
        /\ pc = "raised"
        /\ raised = ConstraintsNotMet
        /\ attempts = max_attempts

\* C16 amended: the same for k >= 1 and min_correct <= max_correct.  With k = 0
\* the empty pool has no letter and the call ends in the no-stems error; with
\* min_correct > max_correct the first pass ends in rng.randint's ValueError.
C16_NeverReturnsValidRange ==
    (/\ pc \in {"returned", "raised"}
     /\ TooFewSharers
     /\ k >= 1
     /\ min_correct <= max_correct) =>
        /\ pc = "raised"
        /\ raised = ConstraintsNotMet
        /\ attempts = max_attempts

\* Two passes over such a pool ended in the unsatisfiable-constraints error
C16_Witness ==
    /\ pc = "raised"
    /\ TooFewSharers
    /\ k >= 1
    /\ min_correct <= max_correct
    /\ raised = ConstraintsNotMet
    /\ attempts = 2

\* C18: the two failures of the composer are distinct kinds of error, so a
\* caller can tell them apart by the kind alone: the error raised when the
\* attempts run out is not of the kind of the insufficient-pool errors.
C18_DistinctKinds ==
    (pc = "raised" /\ raised = ConstraintsNotMet) =>
        raised.type \notin {PoolTooSmall.type, NoValidStems.type}

\* C13: each tile can change the round counters at most once per round: a tap
\* on a tile already tapped in the current round leaves num_images_to_find
\* and chances_remaining unchanged.
C13_OncePerTile ==
    [][\A t \in tapped :
          evaluate_image_click_composite(t) =>
              UNCHANGED <<num_images_to_find, chances_remaining>>]_vars

\* C20: once round_over is true, tile taps (and everything else short of
\* start_round) leave num_images_to_find, chances_remaining, round_over and
\* the state of the Play again button unchanged.
C20_FrozenAfterRoundOver ==
    [][(round_over /\ ui_op' # "start_round") =>
          UNCHANGED <<num_images_to_find, chances_remaining, round_over,
                      play_again_btn>>]_vars

\* A correct tile was tapped after the round was lost, with items still to find
C20_Witness ==
    /\ round_over
    /\ end_branch = "too_few"
    /\ ui_op = "tap"
    /\ tap_correct
    /\ num_images_to_find > 0
    /\ chances_remaining > 0

\* C24: for a controller constructed with total_to_find = n >= 1 and
\* total_chances = n + 1, every sequence of record_correct/record_incorrect
\* events has over = true once 2n events were made.
C24_OverWithin2n ==
    (ReferencePolicy /\ Len(hist) >= 2 * total_to_find) => over

\* The round of n = 3 that lasts longest: it ended on its sixth event
C24_Witness ==
    /\ ReferencePolicy
    /\ total_to_find = 3
    /\ Len(hist) = 6
    /\ Endings(hist) = {6}
    /\ over

\* C25: for total_chances >= total_to_find >= 1 and events only,
\* record_correct returns only continue or win, record_incorrect returns only
\* continue, lose or impossible, and at most one call of the controller's
\* life returns a value other than continue.
C25_ReturnsByEvent ==
    (total_to_find >= 1 /\ total_chances >= total_to_find /\ ~synced) =>
        /\ \A i \in 1..Len(hist) :
              IF hist[i].ev = "correct"
              THEN hist[i].out \in {"continue", "win"}
              ELSE hist[i].out \in {"continue", "lose", "impossible"}
        /\ Cardinality(Endings(hist)) <= 1

\* Calls of both kinds went on after the one that returned a terminal value
C25_Witness ==
    /\ total_to_find >= 1
    /\ total_chances >= total_to_find
    /\ ~synced
    /\ \E i \in Endings(hist) :
          /\ Len(hist) >= i + 2
          /\ hist[i + 1].ev = "correct"
          /\ hist[i + 2].ev = "incorrect"

\* C30: sync_from_phone is all-or-nothing: if the conversion of either
\* external value fails, both remaining_to_find and remaining_chances keep
\* their previous values; and in every case total_to_find, total_chances and
\* over are left unchanged.
C30_SyncAllOrNothing ==
    [][op' = "sync_from_phone" =>
          /\ ("unconvertible" \in {args'[1], args'[2]}) =>
                 UNCHANGED <<remaining_to_find, remaining_chances>>
          /\ UNCHANGED <<total_to_find, total_chances, over>>]_vars

\* The members of a sequence are pairwise distinct
Distinct(sq) == \A i, j \in 1..Len(sq) : sq[i] = sq[j] => i = j

\* C26: the selected sequence choose_round returns holds k pairwise-distinct
\* names, all taken from the pool, and is a rearrangement of the sampled
\* correct items and the sampled distractors: target_correct matches and
\* k - target_correct non-matches, the two disjoint, nothing added, dropped or
\* duplicated.
C26_SelectedIsPermutation ==
    pc = "returned" =>
        LET m == Range(matches(letter))
            s == Range(selected)
        IN  /\ Len(selected) = k
            /\ Distinct(selected)
            /\ s \subseteq Pool
            /\ correct \subseteq s
            /\ correct \subseteq m
            /\ Cardinality(correct) = target_correct
            /\ Cardinality(s \ correct) = k - target_correct
            /\ (s \ correct) \cap m = {}

\* A round of three tiles returned with both correct items and distractors,
\* and a match of the letter left out of it
C26_Witness ==
    /\ pc = "returned"
    /\ k = 3
    /\ correct # {}
    /\ Range(selected) \ correct # {}
    /\ Range(matches(letter)) \ Range(selected) # {}

\* The pair drawn last, if it passes the count comparisons, asks rng.sample for
\* a distractor count that is not negative; and the samples of a round that
\* was returned were asked for counts within their populations
SamplesDefined ==
    /\ (PairDrawn /\ k - target_correct < 0) => ~Feasible(letter, target_correct)
    /\ pc = "returned" =>
          /\ 0 <= k - target_correct
          /\ k - target_correct <= Len(nonmatches(letter))
          /\ target_correct <= Len(matches(letter))

\* The call is over only by a RoundState or by one of choose_round's own errors
EndsAsDefined ==
    pc \in {"returned", "raised"} =>
        \/ pc = "returned"
        \/ raised \in {PoolTooSmall, NoValidStems, ConstraintsNotMet}

\* C27 as claimed: for every bounds with min_correct <= max_correct, whether
\* or not max_correct <= k, a pair that passes the count comparisons has
\* 0 <= k - target <= |non-matches|, and choose_round ends only by returning
\* a RoundState or with one of its defined errors.
C27_SamplesDefined ==
    min_correct <= max_correct => (SamplesDefined /\ EndsAsDefined)

\* C27 amended: the same for 0 <= min_correct <= max_correct <= k.
C27_SamplesDefinedWithinK ==
    ValidBounds => (SamplesDefined /\ EndsAsDefined)

\* A round returned with all k >= 1 tiles correct: the distractor sample was
\* asked for 0 items
C27_Witness ==
    /\ ValidBounds
    /\ pc = "returned"
    /\ k >= 1
    /\ target_correct = k
    /\ Cardinality(correct) = k

\* C22: every tap made while the round is active lowers chances_remaining by
\* exactly 1 whether the tile is correct or not, and lowers num_images_to_find
\* by exactly 1 only when the tile is correct; neither counter is ever below 0.
C22_TapSpendsChance ==
    /\ [](num_images_to_find >= 0 /\ chances_remaining >= 0)
    /\ [][(~round_over /\ ui_op' = "tap") =>
             /\ chances_remaining' = chances_remaining - 1
             /\ num_images_to_find' =
                    IF tap_correct' THEN num_images_to_find - 1 ELSE num_images_to_find]_vars

\* The first tap of a round was on a correct tile, took one off both counters
\* and left the round active
C22_Witness ==
    /\ ui_op = "tap"
    /\ tap_correct
    /\ ~round_over
    /\ Cardinality(tapped) = 1
    /\ num_images_to_find = initial_num_images_to_find - 1
    /\ chances_remaining = initial_chances - 1

\* The incorrect taps made in the round while it was active: every such tap
\* took a chance, and the correct ones took an item to find as well
IncorrectTaps ==
    (initial_chances - chances_remaining)
        - (initial_num_images_to_find - num_images_to_find)

\* C23: a round started with n correct tiles and n + 1 chances is over exactly
\* when num_images_to_find has come to 0, as a win, or a second incorrect tap
\* was made before that, as a loss; every loss goes through the
\* too-few-chances branch and the chances-exhausted branch is never taken.
C23_WinOrSecondMiss ==
    /\ end_branch # "no_chances"
    /\ (tiles # {} /\ initial_chances = initial_num_images_to_find + 1) =>
          /\ IncorrectTaps \in 0..2
          /\ round_over <=> (num_images_to_find = 0 \/ IncorrectTaps = 2)
          /\ (round_over /\ num_images_to_find = 0) =>
                (end_branch = "win" /\ IncorrectTaps <= 1)
          /\ (round_over /\ num_images_to_find > 0) => end_branch = "too_few"

\* A round of 3 lost on the second incorrect tap with two items already found
C23_Witness ==
    /\ tiles # {}
    /\ initial_num_images_to_find = 3
    /\ round_over
    /\ end_branch = "too_few"
    /\ num_images_to_find = 1
    /\ chances_remaining = 0
    /\ ui_op = "tap"
    /\ ~tap_correct

\* C28: every successful start_round, whatever the round before it came to,
\* leaves round_over false, the Play again button disabled,
\* num_images_to_find = initial_num_images_to_find = |correct| of the new
\* RoundState and chances_remaining = initial_chances = |correct| + 1.
C28_StartRoundResets ==
    (ui_op = "start_round" /\ tiles # {}) =>
        /\ ~round_over
        /\ play_again_btn = "disabled"
        /\ tapped = {}
        /\ num_images_to_find = Cardinality(correct_images)
        /\ initial_num_images_to_find = Cardinality(correct_images)
        /\ chances_remaining = Cardinality(correct_images) + 1
        /\ initial_chances = Cardinality(correct_images) + 1

\* A round of 5 has just been started after a round that was lost
C28_Witness ==
    /\ ui_op = "start_round"
    /\ tiles # {}
    /\ end_branch = "too_few"
    /\ Cardinality(correct_images) = 5
    /\ num_images_to_find = 5

\* C29: in every reachable state of the window the Play again button is
\* enabled exactly when round_over is true.
C29_ButtonIffRoundOver ==
    (play_again_btn = "normal") <=> round_over

\* The button is enabled by the second tap of a round of 2, which won it
C29_Witness ==
    /\ round_over
    /\ play_again_btn = "normal"
    /\ end_branch = "win"
    /\ Cardinality(tapped) = 2
    /\ initial_num_images_to_find = 2

\* C21: in a round of n correct tiles and n + 1 chances, with every tap
\* reported to the controller (record_correct for a correct tile,
\* record_incorrect for any other), the controller and the window hold equal
\* counters after every tap, are over after the same taps, and an ended round
\* is a win for both or a loss for both.
C21_SameGame ==
    /\ remaining_to_find = num_images_to_find
    /\ remaining_chances = chances_remaining
    /\ over = round_over
    /\ (over /\ round_over) =>
          ((\E i \in Endings(hist) : hist[i].out = "win") <=> end_branch = "win")

====
